---- MODULE Spec2Model ----
(***************************************************************************)
(* A model of skyhook's client module (src/skyhook/client.py): the direct  *)
(* client (Client.execute: one POST) and the Web Remote Control client     *)
(* (UnrealClient.execute: a PUT that invokes the command, then a PUT that  *)
(* invokes get_reply, then eval() of the textual ReturnValue).             *)
(*                                                                         *)
(* The program is single-threaded and every network call blocks, so one    *)
(* call frame (pc, frame) is enough: an operation on a client starts only  *)
(* when no call is in progress.  The host program is the environment: it   *)
(* answers the outstanding request with a JSON mapping or the transport    *)
(* fails.                                                                  *)
(*                                                                         *)
(* Python values are records [t |-> type name, v |-> value].  A str is a   *)
(* sequence of tokens, so that eval() can be computed on it and "" is the  *)
(* empty sequence.  A dict is a function from its keys.                    *)
(***************************************************************************)
EXTENDS Integers, Sequences, FiniteSets, TLC

\* ---------------------------------------------------------------- bounds
\* Integer literals that occur in host texts and parameters are 1..MaxInt.
MaxInt == 3

\* ------------------------------------------------------- Python values
Str(toks) == [t |-> "str", v |-> toks]
PyInt(n) == [t |-> "int", v |-> n]
PyBool(b) == [t |-> "bool", v |-> b]
PyList(elems) == [t |-> "list", v |-> elems]
PyModule(name) == [t |-> "module", v |-> name]
PyFunction(name) == [t |-> "function", v |-> name]
PyNone == [t |-> "NoneType", v |-> "None"]
PyRaise(exc) == [t |-> "raise", v |-> exc]

\* The empty dict {}.
EmptyDict == [k \in {} |-> PyNone]

\* dict.get(key): the value, or None when the key is absent.
DictGet(d, key) == IF key \in DOMAIN d THEN d[key] ELSE PyNone

\* callable(command): of the values a command can be, only a function is.
Callable(command) == command.t = "function"

\* command.__name__ of a function.
FunctionName(command) == Str(<<command.v>>)

\* json.dumps accepts None, bool, int, str, list and dict; a function object
\* is not serializable, and requests raises before anything is sent.
JsonSerializable(payload) == payload.FunctionName.t # "function"

\* ------------------------------------------------------------- eval()
\* The tokens of the expressions the host texts are made of.  eval() runs
\* in the scope of __get_response, where the module's imports are bound.
IntTokens == {"1", "2", "3", "4"}
IntOfToken(tok) == CASE tok = "1" -> 1 [] tok = "2" -> 2 [] tok = "3" -> 3 [] tok = "4" -> 4
TokenOfInt(n) == CHOOSE tok \in IntTokens : IntOfToken(tok) = n
StrTokens == {"'abc'"}
StrOfToken(tok) == CASE tok = "'abc'" -> Str(<<"abc">>)
BoundNames == {"pprint", "requests"}
Identifiers == BoundNames \cup {"a", "literal", "x"}

EvalOk(value) == [ok |-> TRUE, value |-> value]
EvalRaise(exc) == [ok |-> FALSE, value |-> PyRaise(exc)]

\* One operand: an integer literal, a string literal or a name.
EvalAtom(tok) ==
    CASE tok \in IntTokens -> EvalOk(PyInt(IntOfToken(tok)))
      [] tok \in StrTokens -> EvalOk(StrOfToken(tok))
      [] tok \in BoundNames -> EvalOk(PyModule(tok))
      [] tok \in Identifiers -> EvalRaise("NameError")
      [] OTHER -> EvalRaise("SyntaxError")

\* Operands separated by sep: the operands are at the odd positions.
Separated(toks, sep) ==
    /\ Len(toks) % 2 = 1
    /\ \A i \in 1..Len(toks) : (i % 2 = 0) => toks[i] = sep
Operands(toks) == [i \in 1..((Len(toks) + 1) \div 2) |-> EvalAtom(toks[2 * i - 1])]

\* The first error of a sequence of evaluated operands: the expression is
\* compiled before it runs, so a SyntaxError anywhere comes before a
\* NameError.
FirstError(ops) ==
    IF \E i \in DOMAIN ops : ops[i].value = PyRaise("SyntaxError")
    THEN EvalRaise("SyntaxError")
    ELSE ops[CHOOSE i \in DOMAIN ops : ~ops[i].ok /\ \A j \in 1..(i - 1) : ops[j].ok]

RECURSIVE SumInts(_)
SumInts(ops) == IF ops = <<>> THEN 0 ELSE Head(ops).value.v + SumInts(Tail(ops))

\* a + b + ...: integers add; anything else the model's texts do not use.
EvalSum(toks) ==
    LET ops == Operands(toks) IN
    IF \E i \in DOMAIN ops : ~ops[i].ok THEN FirstError(ops)
    ELSE IF \A i \in DOMAIN ops : ops[i].value.t = "int" THEN EvalOk(PyInt(SumInts(ops)))
    ELSE EvalRaise("TypeError")

\* [a, b, ...]: inner is what stands between the brackets.
EvalList(inner) ==
    IF inner = <<>> THEN EvalOk(PyList(<<>>))
    ELSE IF ~Separated(inner, ",") THEN EvalRaise("SyntaxError")
    ELSE LET ops == Operands(inner) IN
         IF \E i \in DOMAIN ops : ~ops[i].ok THEN FirstError(ops)
         ELSE EvalOk(PyList([i \in DOMAIN ops |-> ops[i].value]))

\* eval(source): source is a str only when the host sent a text; eval(None)
\* and eval(7) raise TypeError.
PyEval(source) ==
    IF source.t # "str" THEN EvalRaise("TypeError")
    ELSE LET toks == source.v IN
         IF toks = <<>> THEN EvalRaise("SyntaxError")
         ELSE IF Len(toks) = 1 THEN EvalAtom(toks[1])
         ELSE IF toks[1] = "[" /\ toks[Len(toks)] = "]"
              THEN EvalList(SubSeq(toks, 2, Len(toks) - 1))
         ELSE IF Separated(toks, "+") THEN EvalSum(toks)
         ELSE EvalRaise("SyntaxError")

\* --------------------------------------------------------- constants
\* Client.__init__
DefaultHostAddress == Str(<<"127.0.0.1">>)
DefaultPort == 65500
\* constants.Ports.unreal: a port of its own for the Unreal host.
PortsUnreal == 30010
\* UnrealClient.__init__
DefaultCommandObjectPath == Str(<<"/Engine/PythonTypes.Default__SkyHookCommands">>)
ServerCommandObjectPath == Str(<<"/Engine/PythonTypes.Default__SkyHookServerCommands">>)
Headers == [h \in {"Content-type", "Accept"} |->
               IF h = "Content-type" THEN "application/json" ELSE "text/plain"]
\* The default of set_command_object_path's parameter.
DefaultPathArgument == Str(<<"/Engine/PythonTypes.Default__PythonClassName">>)

\* constants.ServerCommands: the fixed registry of server-command names.
ServerCommandNames == {Str(<<"SKY_SHUTDOWN">>), Str(<<"SKY_LS">>)}
\* dir(ServerCommands): the attributes of the class, which are the registry's
\* names and the attributes every Python class has.
DirServerCommands == ServerCommandNames \cup {Str(<<"__doc__">>), Str(<<"__module__">>)}

\* "http://%s:%s" % (host_address, port), followed by the endpoint.
Url(host, prt, endpoint) == [scheme |-> "http", host |-> host.v, port |-> prt, path |-> endpoint]

\* Mutant: the payload of the direct client built like the Unreal one, with
\* the transaction flag.
Client_create_payload_Transaction(command, parameters) ==
    [FunctionName |-> command, Parameters |-> parameters,
     GenerateTransaction |-> PyBool(TRUE)]

\* Client.__create_payload
Client_create_payload(command, parameters) ==
    [FunctionName |-> command, Parameters |-> parameters]

\* UnrealClient.__create_payload
UnrealClient_create_payload(command, parameters, object_path) ==
    [ObjectPath |-> object_path, FunctionName |-> command,
     Parameters |-> parameters, GenerateTransaction |-> PyBool(TRUE)]

\* ------------------------------------------------------------ inputs
Clients == {"c1", "c2"}
Classes == {"Client", "UnrealClient"}

\* Commands as the caller passes them: a name, or a function of that name.
CommandArgs ==
    {Str(<<"spawn_cube">>), Str(<<"SKY_SHUTDOWN">>), Str(<<"__doc__">>),
     PyFunction("spawn_cube"), PyFunction("SKY_SHUTDOWN")}

\* The parameters argument: left out, or a mapping.
ParameterArgs ==
    {[omitted |-> TRUE, value |-> EmptyDict],
     [omitted |-> FALSE, value |-> [size |-> PyInt(MaxInt)]]}

\* Arguments of set_command_object_path; the code accepts any value.
PathArgs == {DefaultPathArgument, Str(<<>>)}

\* Texts the host sends as ReturnValue.
IntListText == [i \in 1..(2 * MaxInt + 1) |->
                   IF i = 1 THEN "[" ELSE IF i = 2 * MaxInt + 1 THEN "]"
                   ELSE IF i % 2 = 1 THEN "," ELSE TokenOfInt(i \div 2)]
ReturnTexts ==
    {IntListText, <<"'abc'">>, <<"not", "a", "literal", "!">>,
     <<"1", "+", TokenOfInt(MaxInt)>>, <<"pprint">>}

\* JSON mappings the host answers with.
HostResponses ==
    {[Success |-> PyBool(TRUE), ReturnValue |-> Str(text)] : text \in ReturnTexts}
    \cup {[Success |-> PyBool(TRUE)], [Success |-> PyBool(FALSE)],
          [ReturnValue |-> Str(IntListText)], [ReturnValue |-> PyInt(MaxInt)],
          EmptyDict}

\* What the host answers to the PUT that invokes the command.
InvokeResponses == {EmptyDict, [ReturnValue |-> Str(<<"'abc'">>)]}

\* ------------------------------------------------------------- state
VARIABLES
    cls,                        \* the class each client was constructed from
    host_address, port,         \* Client attributes
    echo_execution, echo_payload,
    command_object_path,        \* UnrealClient attributes
    server_command_object_path,
    default_parameters,         \* the {} that is the default of each execute
    pc,                         \* where the one thread of the program is
    frame                       \* the operation in progress, or the one that
                                \* just ended as its caller sees it

config == <<cls, host_address, port, echo_execution, echo_payload,
            command_object_path, server_command_object_path, default_parameters>>
vars == <<cls, host_address, port, echo_execution, echo_payload,
          command_object_path, server_command_object_path, default_parameters,
          pc, frame>>

IsUnreal(c) == cls[c] = "UnrealClient"

\* The attributes of one client.
ClientState(c) ==
    [host_address |-> host_address[c], port |-> port[c],
     echo_execution |-> echo_execution[c], echo_payload |-> echo_payload[c],
     command_object_path |-> command_object_path[c],
     server_command_object_path |-> server_command_object_path[c]]

\* frame.before is the state of every client when the operation was called;
\* requests and received are what went over the wire, in order.
NoFrame ==
    [client |-> "none", op |-> "none", command |-> PyNone, omitted |-> FALSE,
     parameters |-> EmptyDict, used_object_path |-> PyNone, payload |-> EmptyDict,
     before |-> <<>>, requests |-> <<>>, received |-> <<>>, stdout |-> <<>>,
     outcome |-> "none", result |-> PyNone]

\* The frame of a setter, which returns None.
SetterFrame(c, op, value) ==
    [NoFrame EXCEPT !.client = c, !.op = op, !.command = value,
                    !.before = [d \in Clients |-> ClientState(d)],
                    !.outcome = "returned"]

Init ==
    /\ cls \in {k \in [Clients -> Classes] : k["c2"] = "UnrealClient"}
    /\ host_address = [c \in Clients |-> DefaultHostAddress]
    /\ port = [c \in Clients |-> IF cls[c] = "UnrealClient" THEN PortsUnreal ELSE DefaultPort]
    /\ echo_execution = [c \in Clients |-> TRUE]
    /\ echo_payload = [c \in Clients |-> TRUE]
    /\ command_object_path =
           [c \in Clients |-> IF cls[c] = "UnrealClient" THEN DefaultCommandObjectPath ELSE PyNone]
    /\ server_command_object_path =
           [c \in Clients |-> IF cls[c] = "UnrealClient" THEN ServerCommandObjectPath ELSE PyNone]
    /\ default_parameters = [k \in Classes |-> EmptyDict]
    /\ pc = "idle"
    /\ frame = NoFrame

\* ----------------------------------------------------------- setters
set_echo_execution(c, value) ==
    /\ pc = "idle"
    /\ echo_execution' = [echo_execution EXCEPT ![c] = value]
    /\ UNCHANGED <<cls, host_address, port, echo_payload, command_object_path,
                   server_command_object_path, default_parameters, pc>>
    /\ frame' = SetterFrame(c, "set_echo_execution", PyBool(value))

set_echo_payload(c, value) ==
    /\ pc = "idle"
    /\ echo_payload' = [echo_payload EXCEPT ![c] = value]
    /\ UNCHANGED <<cls, host_address, port, echo_execution, command_object_path,
                   server_command_object_path, default_parameters, pc>>
    /\ frame' = SetterFrame(c, "set_echo_payload", PyBool(value))

\* Mutant: the path kept in one attribute of the class, shared by all
\* UnrealClient instances.
set_command_object_path_Shared(c, path) ==
    /\ pc = "idle"
    /\ IsUnreal(c)
    /\ command_object_path' =
           [d \in Clients |-> IF IsUnreal(d) THEN path ELSE command_object_path[d]]
    /\ UNCHANGED <<cls, host_address, port, echo_execution, echo_payload,
                   server_command_object_path, default_parameters, pc>>
    /\ frame' = SetterFrame(c, "set_command_object_path", path)

\* Mutant: the path stored in the server-command attribute.
set_command_object_path_ServerAttr(c, path) ==
    /\ pc = "idle"
    /\ IsUnreal(c)
    /\ server_command_object_path' = [server_command_object_path EXCEPT ![c] = path]
    /\ UNCHANGED <<cls, host_address, port, echo_execution, echo_payload,
                   command_object_path, default_parameters, pc>>
    /\ frame' = SetterFrame(c, "set_command_object_path", path)

set_command_object_path(c, path) ==
    /\ pc = "idle"
    /\ IsUnreal(c)
    /\ command_object_path' = [command_object_path EXCEPT ![c] = path]
    /\ UNCHANGED <<cls, host_address, port, echo_execution, echo_payload,
                   server_command_object_path, default_parameters, pc>>
    /\ frame' = SetterFrame(c, "set_command_object_path", path)

\* ----------------------------------------------------------- execute
\* The lines pprint prints once the response is there.
Echo(c, payload, response) ==
    (IF echo_payload[c] THEN <<payload>> ELSE <<>>)
        \o (IF echo_execution[c] THEN <<response>> ELSE <<>>)

\* The parameters the body of execute sees.
Parameters(c, arg) == IF arg.omitted THEN default_parameters[cls[c]] ELSE arg.value

\* Client.execute up to the POST: the command is resolved to its name, the
\* payload is built and posted.
Client_execute(c, op, command, arg) ==
    LET name == IF Callable(command) THEN FunctionName(command) ELSE command
        url == Url(host_address[c], port[c], "")
        payload == Client_create_payload(name, Parameters(c, arg))
    IN  /\ frame' = [NoFrame EXCEPT !.client = c, !.op = op, !.command = command,
                        !.before = [d \in Clients |-> ClientState(d)],
                        !.omitted = arg.omitted, !.parameters = Parameters(c, arg),
                        !.payload = payload,
                        !.requests = <<[method |-> "POST", url |-> url,
                                        json |-> payload, headers |-> EmptyDict]>>]
        /\ pc' = "post"

\* UnrealClient.execute up to the first PUT: the object path is chosen, the
\* payload is built and put.  A payload that cannot be serialized raises
\* before anything is sent.
UnrealClient_execute(c, op, command, arg) ==
    LET url == Url(host_address[c], port[c], "/remote/object/call")
        used_object_path == IF command \in DirServerCommands
                            THEN server_command_object_path[c]
                            ELSE command_object_path[c]
        payload == UnrealClient_create_payload(command, Parameters(c, arg), used_object_path)
        started == [NoFrame EXCEPT !.client = c, !.op = op, !.command = command,
                        !.before = [d \in Clients |-> ClientState(d)],
                        !.omitted = arg.omitted, !.parameters = Parameters(c, arg),
                        !.used_object_path = used_object_path, !.payload = payload]
    IN  IF JsonSerializable(payload)
        THEN /\ frame' = [started EXCEPT
                             !.requests = <<[method |-> "PUT", url |-> url,
                                             json |-> payload, headers |-> Headers]>>]
             /\ pc' = "put"
        ELSE /\ frame' = [started EXCEPT !.outcome = "raised",
                                         !.result = PyRaise("TypeError")]
             /\ pc' = "idle"

\* self.execute(...): the method of the client's class.
Dispatch(c, op, command, arg) ==
    /\ IF IsUnreal(c)
       THEN UnrealClient_execute(c, op, command, arg)
       ELSE Client_execute(c, op, command, arg)
    /\ UNCHANGED config

\* A caller calls execute.
execute(c) ==
    /\ pc = "idle"
    /\ \E command \in CommandArgs, arg \in ParameterArgs :
           Dispatch(c, "execute", command, arg)

\* Client.is_host_online up to the POST or PUT of self.execute("is_online", {}).
is_host_online(c) ==
    /\ pc = "idle"
    /\ Dispatch(c, "is_host_online", Str(<<"is_online">>),
                [omitted |-> FALSE, value |-> EmptyDict])

\* What the caller of execute gets: is_host_online goes on to
\* response.get("Success"), which None does not have.
Finish(op, returned) ==
    IF op = "is_host_online"
    THEN IF returned = PyNone
         THEN [outcome |-> "raised", result |-> PyRaise("AttributeError")]
         ELSE [outcome |-> "returned", result |-> DictGet(returned, "Success")]
    ELSE [outcome |-> "returned", result |-> returned]

\* Mutant: a failed request is sent again.
TransportErrorRetry(at) ==
    /\ pc = at
    /\ frame' = [frame EXCEPT !.requests = @ \o <<frame.requests[Len(frame.requests)]>>]
    /\ pc' = pc
    /\ UNCHANGED config

\* The transport fails: requests raises and nothing catches it.
TransportError(at) ==
    /\ pc = at
    /\ frame' = [frame EXCEPT !.outcome = "raised", !.result = PyRaise("TransportError")]
    /\ pc' = "idle"
    /\ UNCHANGED config

\* Client.execute after the POST: the echoes, then the end of the function,
\* which returns None.
PostReplied(response) ==
    /\ pc = "post"
    /\ LET c == frame.client
           fin == Finish(frame.op, PyNone)
       IN frame' = [frame EXCEPT !.received = <<response>>,
                                 !.stdout = Echo(c, frame.payload, response),
                                 !.outcome = fin.outcome, !.result = fin.result]
    /\ pc' = "idle"
    /\ UNCHANGED config

\* UnrealClient.execute after the first PUT: its response is dropped and
\* __get_response puts get_reply to the object path execute used.
PutReplied(response) ==
    /\ pc = "put"
    /\ LET c == frame.client
           url == Url(host_address[c], port[c], "/remote/object/call")
           payload == UnrealClient_create_payload(Str(<<"get_reply">>), EmptyDict,
                                                  frame.used_object_path)
       IN frame' = [frame EXCEPT !.received = <<response>>,
                                 !.requests = @ \o <<[method |-> "PUT", url |-> url,
                                                      json |-> payload, headers |-> Headers]>>]
    /\ pc' = "get_reply"
    /\ UNCHANGED config

\* __get_response after its PUT: eval of the ReturnValue, and the response
\* as it is when eval raises.
Unwrap(response) ==
    LET ev == PyEval(DictGet(response, "ReturnValue"))
    IN IF ev.ok THEN [ReturnValue |-> ev.value] ELSE response

\* Mutant: execute returns what the invoking PUT answered.
GetReplyRepliedFromFirst(response) ==
    /\ pc = "get_reply"
    /\ LET c == frame.client
           unwrapped == Unwrap(frame.received[1])
           fin == Finish(frame.op, unwrapped)
       IN frame' = [frame EXCEPT !.received = @ \o <<response>>,
                                 !.stdout = Echo(c, frame.payload, unwrapped),
                                 !.outcome = fin.outcome, !.result = fin.result]
    /\ pc' = "idle"
    /\ UNCHANGED config

\* UnrealClient.execute after __get_response: the echoes and the return.
GetReplyReplied(response) ==
    /\ pc = "get_reply"
    /\ LET c == frame.client
           unwrapped == Unwrap(response)
           fin == Finish(frame.op, unwrapped)
       IN frame' = [frame EXCEPT !.received = @ \o <<response>>,
                                 !.stdout = Echo(c, frame.payload, unwrapped),
                                 !.outcome = fin.outcome, !.result = fin.result]
    /\ pc' = "idle"
    /\ UNCHANGED config

Next ==
    \/ \E c \in Clients, value \in BOOLEAN : set_echo_execution(c, value)
    \/ \E c \in Clients, value \in BOOLEAN : set_echo_payload(c, value)
    \/ \E c \in Clients, path \in PathArgs : set_command_object_path(c, path)
    \/ \E c \in Clients : execute(c)
    \/ \E c \in Clients : is_host_online(c)
    \/ \E response \in HostResponses : PostReplied(response)
    \/ \E response \in InvokeResponses : PutReplied(response)
    \/ \E response \in HostResponses : GetReplyReplied(response)
    \/ TransportError("post")
    \/ TransportError("put")
    \/ TransportError("get_reply")

Spec == Init /\ [][Next]_vars

\* ===================================================================
\* Properties
\* ===================================================================
InCall == frame.op \in {"execute", "is_host_online"}
Ended == InCall /\ pc = "idle"
OnUnreal == InCall /\ IsUnreal(frame.client)
OnDirect == InCall /\ ~IsUnreal(frame.client)

\* The name a command stands for: a function's name, or the name given.
NameOf(command) == IF Callable(command) THEN FunctionName(command) ELSE command

\* A structured literal: an integer, a string, or a list of them as written.
LiteralToken(tok) == tok \in IntTokens \cup StrTokens
IsLiteralText(value) ==
    /\ value.t = "str"
    /\ LET toks == value.v
           inner == SubSeq(toks, 2, Len(toks) - 1)
       IN \/ Len(toks) = 1 /\ LiteralToken(toks[1])
          \/ /\ Len(toks) >= 2
             /\ toks[1] = "[" /\ toks[Len(toks)] = "]"
             /\ \/ inner = <<>>
                \/ /\ Separated(inner, ",")
                   /\ \A i \in DOMAIN inner : (i % 2 = 1) => LiteralToken(inner[i])

\* C1: UnrealClient.execute addresses its payload to the server-command
\* object path when the command name is in the fixed registry of
\* server-command names, and to the client's current command object path
\* for every other name.
C1_ObjectPathByRegistry ==
    (frame.op = "execute" /\ IsUnreal(frame.client) /\ frame.requests # <<>>) =>
        frame.requests[1].json.ObjectPath =
            IF frame.command \in ServerCommandNames
            THEN server_command_object_path[frame.client]
            ELSE command_object_path[frame.client]

\* C2: an execute of a non-privileged command that follows
\* set_command_object_path calls ending with P sends the invocation and the
\* get_reply request with ObjectPath P, and the two requests of one execute
\* never carry different object paths.
C2_OverriddenPathOnBothRequests ==
    (frame.op = "execute" /\ IsUnreal(frame.client)) =>
        /\ frame.command \notin ServerCommandNames =>
               \A i \in DOMAIN frame.requests :
                   frame.requests[i].json.ObjectPath = command_object_path[frame.client]
        /\ \A i, j \in DOMAIN frame.requests :
               frame.requests[i].json.ObjectPath = frame.requests[j].json.ObjectPath

\* C3: an UnrealClient.execute that returns has issued exactly two requests:
\* the PUT that invokes the command with the parameters and then, only once
\* that PUT was answered, the PUT that invokes get_reply with no parameters;
\* what it returns comes from the second response alone.  A Client.execute
\* issues exactly one POST.  No request is issued outside an execute.
C3_RequestSequence ==
    /\ ~InCall => frame.requests = <<>>
    /\ OnDirect =>
           /\ Len(frame.requests) = 1
           /\ frame.requests[1].method = "POST"
           /\ Len(frame.received) <= 1
    /\ OnUnreal =>
           /\ Len(frame.requests) <= 2
           /\ \A i \in DOMAIN frame.requests : frame.requests[i].method = "PUT"
           /\ Len(frame.requests) = 2 => Len(frame.received) >= 1
           /\ Len(frame.received) <= Len(frame.requests)
    /\ (OnUnreal /\ frame.outcome = "returned") =>
           /\ Len(frame.requests) = 2 /\ Len(frame.received) = 2
           /\ frame.requests[1].json.FunctionName = frame.command
           /\ frame.requests[1].json.Parameters = frame.parameters
           /\ frame.requests[2].json.FunctionName = Str(<<"get_reply">>)
           /\ frame.requests[2].json.Parameters = EmptyDict
           /\ frame.op = "execute" => frame.result = Unwrap(frame.received[2])

C3_Witness ==
    /\ frame.op = "execute" /\ IsUnreal(frame.client)
    /\ frame.outcome = "returned"
    /\ frame.parameters # EmptyDict
    /\ frame.received[1] # frame.received[2]
    /\ frame.result # Unwrap(frame.received[1])

\* C4: the get_reply step returns the structured value as ReturnValue when
\* the host's ReturnValue text is a structured literal, and returns the
\* host response unchanged, text preserved, when the text is not a literal
\* or the field is absent; no coercion error reaches the caller.
C4_CoercionOfLiteralsOnly ==
    (frame.op = "execute" /\ IsUnreal(frame.client) /\ Len(frame.received) = 2) =>
        LET response == frame.received[2]
            text == DictGet(response, "ReturnValue")
        IN /\ frame.outcome = "returned"
           /\ IF IsLiteralText(text)
              THEN frame.result = [ReturnValue |-> PyEval(text).value]
              ELSE frame.result = response

\* C5: the online check executes "is_online" with an empty parameter
\* mapping and returns true exactly when the host response's Success is
\* true, false otherwise, also when Success is absent.
C5_OnlineIffSuccess ==
    (frame.op = "is_host_online" /\ pc = "idle"
        /\ Len(frame.received) = Len(frame.requests)) =>
        /\ frame.requests[1].json.FunctionName = Str(<<"is_online">>)
        /\ frame.requests[1].json.Parameters = EmptyDict
        /\ frame.outcome = "returned"
        /\ frame.result =
               PyBool(DictGet(frame.received[Len(frame.received)], "Success") = PyBool(TRUE))

\* C6: on either client, execute with a function named N sends the payload
\* that execute with the string N sends: the name is resolved before the
\* payload is built and before the object path is chosen.
C6_CallableAsName ==
    (frame.op = "execute" /\ Callable(frame.command)) =>
        /\ frame.requests # <<>>
        /\ LET c == frame.client
               name == FunctionName(frame.command)
           IN frame.requests[1].json =
                  IF IsUnreal(c)
                  THEN UnrealClient_create_payload(name, frame.parameters,
                           IF name \in DirServerCommands
                           THEN server_command_object_path[c]
                           ELSE command_object_path[c])
                  ELSE Client_create_payload(name, frame.parameters)

\* C7: the payload Client.execute posts has exactly the keys FunctionName
\* and Parameters, FunctionName being the command name and Parameters the
\* mapping given, the empty mapping when parameters are omitted.
C7_DirectPayload ==
    OnDirect =>
        LET json == frame.requests[1].json
        IN /\ DOMAIN json = {"FunctionName", "Parameters"}
           /\ json.FunctionName = NameOf(frame.command)
           /\ json.FunctionName.t = "str"
           /\ json.Parameters = frame.parameters
           /\ frame.omitted => json.Parameters = EmptyDict

C7_Witness ==
    /\ OnDirect /\ pc = "idle"
    /\ Callable(frame.command)
    /\ ~frame.omitted /\ frame.parameters # EmptyDict

\* C8: a transport error on the POST, on the first PUT or on the get_reply
\* PUT reaches the caller without a retry and leaves the client's state
\* (host address, port, both object paths, both echo flags) as it was
\* before the call; when the first PUT fails no get_reply is sent.
C8_TransportErrorLeavesClient ==
    /\ pc # "idle" => Len(frame.requests) = Len(frame.received) + 1
    /\ (Ended /\ Len(frame.received) < Len(frame.requests)) =>
           /\ frame.outcome = "raised"
           /\ frame.result = PyRaise("TransportError")
           /\ Len(frame.requests) = Len(frame.received) + 1
           /\ frame.stdout = <<>>
           /\ ClientState(frame.client) = frame.before[frame.client]
           /\ frame.received = <<>> =>
                  \A i \in DOMAIN frame.requests :
                      frame.requests[i].json.FunctionName # Str(<<"get_reply">>)

C8_Witness ==
    /\ Ended /\ IsUnreal(frame.client)
    /\ frame.result = PyRaise("TransportError")
    /\ Len(frame.requests) = 2
    /\ command_object_path[frame.client] = DefaultPathArgument
    /\ ~echo_payload[frame.client]

\* C9 as the specification has it: the command object path of an
\* UnrealClient is always a non-empty string, the server-command object
\* path, the host address and the port keep their initial values, and
\* omitted parameters are sent as the empty mapping on every call.
C9_PathNeverEmpty ==
    /\ \A c \in Clients : IsUnreal(c) =>
           /\ command_object_path[c].t = "str"
           /\ command_object_path[c].v # <<>>
           /\ server_command_object_path[c] = ServerCommandObjectPath
           /\ host_address[c] = DefaultHostAddress
           /\ port[c] = PortsUnreal
    /\ (OnUnreal /\ frame.omitted /\ frame.requests # <<>>) =>
           frame.requests[1].json.Parameters = EmptyDict

\* C9 amended: the command object path of an UnrealClient is its default
\* or the last value given to set_command_object_path, whatever that value
\* is (the empty string is accepted); the server-command object path, the
\* host address and the port keep their initial values, and omitted
\* parameters are sent as the empty mapping on every call.
C9_PathIsLastGiven ==
    /\ \A c \in Clients : IsUnreal(c) =>
           /\ frame.op = "none" => command_object_path[c] = DefaultCommandObjectPath
           /\ (frame.op = "set_command_object_path" /\ frame.client = c) =>
                  command_object_path[c] = frame.command
           /\ (frame.op # "none"
                  /\ ~(frame.op = "set_command_object_path" /\ frame.client = c)) =>
                  command_object_path[c] = frame.before[c].command_object_path
           /\ server_command_object_path[c] = ServerCommandObjectPath
           /\ host_address[c] = DefaultHostAddress
           /\ port[c] = PortsUnreal
    /\ (OnUnreal /\ frame.omitted /\ frame.requests # <<>>) =>
           frame.requests[1].json.Parameters = EmptyDict

C9_Witness ==
    /\ OnUnreal /\ frame.outcome = "returned"
    /\ frame.omitted
    /\ command_object_path[frame.client] = Str(<<>>)
    /\ frame.requests[1].json.ObjectPath = Str(<<>>)

\* C10: an operation on one client (a setter or an execute, every step of
\* it) leaves every attribute of every other client as it was, and with
\* them the object path the other client's next execute uses.
C10_InstancesIndependent ==
    [][\A d \in Clients : d # frame'.client => ClientState(d)' = ClientState(d)]_vars

C10_Witness ==
    /\ \A c \in Clients : IsUnreal(c)
    /\ frame.client = "c1" /\ frame.op = "set_command_object_path"
    /\ command_object_path["c1"] # command_object_path["c2"]
    /\ command_object_path["c2"] # DefaultCommandObjectPath
    /\ echo_payload["c1"] # echo_payload["c2"]

====
